---------------------------- MODULE Spec2Model ----------------------------
(***************************************************************************)
(* One run of the DIP-721 minting tool (src/src/main.rs): command-line     *)
(* validation, the confirmation prompt, agent construction, the capability *)
(* query, metadata assembly, the mint call and the decoding of its reply.  *)
(* Strings that the program inspects character by character (the hex hash) *)
(* are sequences of one-character strings; the collaborators (cid,         *)
(* uriparse, mime_guess, sha2, the file system, the replica) are tables or *)
(* nondeterministic choices over small sets.                               *)
(***************************************************************************)
EXTENDS Naturals, Sequences, FiniteSets, TLC

\* Option<T>: the empty set is None, a singleton is Some(v)
None == {}
Some(v) == {v}
IsSome(o) == o # {}
Get(o) == CHOOSE v \in o : TRUE


(***************************************************************************)
(* Bounds of the model.                                                    *)
(***************************************************************************)
\* reject codes the replica may answer with: 1 .. MaxRejectCode
MaxRejectCode == 5
\* token ids a receipt may carry: 0 .. MaxTokenId
MaxTokenId == 1
\* transaction ids a receipt may carry: 0 .. MaxTxId
MaxTxId == 1

(***************************************************************************)
(* Program constants.                                                      *)
(***************************************************************************)
\* AgentError::ReplicaError { reject_code: 3, .. }
DestinationInvalid == 3
\* locationType codes
LocationIpfs == 1
LocationAssetCanister == 2
LocationUri == 3
LocationNone == 4
\* process::exit(1) in main, clap's usage-error exit status
ExitFailure == 1
ExitUsage == 2

DefaultContentType == "application/octet-stream"
NotDip721Context == "does not appear to be a DIP-721 NFT canister"
NoMintContext == "does not support minting"
UnauthorizedMessage == "You aren't authorized as a custodian of that canister."

(***************************************************************************)
(* types.rs                                                                *)
(***************************************************************************)
InterfaceId == {"Approval", "TransactionHistory", "Mint", "Burn", "TransferNotification"}

MintError == {"Unauthorized"}

MintReceipt == [id : 0 .. MaxTxId, token_id : 0 .. MaxTokenId]

\* MetadataVal: the variants main.rs constructs
TextContent(s) == [tag |-> "TextContent", val |-> <<s>>]
BlobContent(b) == [tag |-> "BlobContent", val |-> b]
Nat8Content(n) == [tag |-> "Nat8Content", val |-> <<n>>]

(***************************************************************************)
(* Inputs: the command line.  Each optional argument is None or Some(v).   *)
(***************************************************************************)
\* --ipfs-location: a well-formed CID and a malformed one
IpfsInputs == {None, Some("QmGood"), Some("not-a-cid")}
\* --asset-canister: a principal in text form and a malformed one
AssetCanisterInputs == {None, Some("ryjl3-tyaaa-aaaaa-aaaba-cai"), Some("not-a-principal")}
\* --uri: a URI with a scheme and a string that is no URI
UriInputs == {None, Some("https://example.com/a.png"), Some("::no-uri::")}
\* --file: a path is a stem and an extension
FileInputs ==
    {None,
     Some([stem |-> "a", ext |-> "png"]),
     Some([stem |-> "blob", ext |-> ""]),
     Some([stem |-> "missing", ext |-> "png"])}
\* --sha2: hex strings as sequences of characters
Sha2Inputs ==
    {None,
     Some(<<"d", "e", "A", "D">>),
     Some(<<"d", "e", "a">>),
     Some(<<"z", "z">>)}
MimeInputs == {None, Some("text/plain")}

ArgsInputs ==
    [ipfs_location : IpfsInputs,
     asset_canister : AssetCanisterInputs,
     uri : UriInputs,
     file : FileInputs,
     sha2 : Sha2Inputs,
     sha2_auto : BOOLEAN,
     mime_type : MimeInputs,
     yes : BOOLEAN]

(***************************************************************************)
(* Errors.  A plain error is [type, code, msg]; an anyhow::Error is a      *)
(* plain error with an optional context laid over it.                      *)
(***************************************************************************)
PlainError(type, code, msg) == [type |-> type, code |-> code, msg |-> msg]

\* AgentError::ReplicaError { reject_code, reject_message }
ReplicaError(code, msg) == PlainError("ReplicaError", code, msg)

\* anyhow::Error::from(e)
Anyhow(e) == [ctx |-> None, cause |-> e]

\* Result::context(msg) on an Err(e)
WithContext(e, msg) == [ctx |-> Some(msg), cause |-> e]

\* impl Display: anyhow prints the outermost context, or the error itself
Display(e) ==
    IF IsSome(e.ctx)
    THEN [text |-> Get(e.ctx), code |-> 0, detail |-> ""]
    ELSE IF e.cause.type = "ReplicaError"
    THEN [text |-> "The Replica returned an error", code |-> e.cause.code,
          detail |-> e.cause.msg]
    ELSE [text |-> e.cause.msg, code |-> 0, detail |-> ""]

(***************************************************************************)
(* Collaborators.                                                          *)
(***************************************************************************)
AssetPrincipal == <<0, 0, 0, 0, 0, 0, 0, 2, 1, 1>>

\* Principal::from_str, used by clap for --asset-canister
PrincipalParse(s) ==
    IF s = "ryjl3-tyaaa-aaaaa-aaaba-cai"
    THEN [ok |-> TRUE, val |-> AssetPrincipal]
    ELSE [ok |-> FALSE, val |-> <<>>]

\* Display for Principal: the text form of the principal's bytes
PrincipalText(p) ==
    IF p = AssetPrincipal THEN "ryjl3-tyaaa-aaaaa-aaaba-cai" ELSE "aaaaa-aa"

\* Cid::from_str followed by Cid::to_bytes
CidParse(s) ==
    IF s = "QmGood"
    THEN [ok |-> TRUE, val |-> <<18, 32, 7>>]
    ELSE [ok |-> FALSE, val |-> <<>>]

\* URI::try_from
UriValid(s) == s = "https://example.com/a.png"

\* fs::read
FsRead(file) ==
    IF file.stem = "missing" THEN [ok |-> FALSE, val |-> <<>>]
    ELSE IF file.stem = "a" THEN [ok |-> TRUE, val |-> <<137, 80>>]
    ELSE [ok |-> TRUE, val |-> <<>>]

\* Sha256::digest
Sha256Digest(data) == <<227, Len(data)>> \o data

\* mime_guess::from_path(..).first()
MimeGuess(file) == IF file.ext = "png" THEN Some("image/png") ELSE None

\* hex::decode: two hex digits, either case, per byte
HexDigits ==
    [c \in {"0", "1", "a", "d", "e", "f", "A", "D"} |->
        CASE c = "0" -> 0
          [] c = "1" -> 1
          [] c \in {"a", "A"} -> 10
          [] c \in {"d", "D"} -> 13
          [] c = "e" -> 14
          [] c = "f" -> 15]

RECURSIVE HexPairs(_)
HexPairs(s) ==
    IF s = <<>> THEN <<>>
    ELSE <<16 * HexDigits[s[1]] + HexDigits[s[2]]>> \o HexPairs(SubSeq(s, 3, Len(s)))

HexDecode(s) ==
    IF Len(s) % 2 # 0 THEN [ok |-> FALSE, val |-> <<>>]
    ELSE IF \E i \in 1 .. Len(s) : s[i] \notin DOMAIN HexDigits
    THEN [ok |-> FALSE, val |-> <<>>]
    ELSE [ok |-> TRUE, val |-> HexPairs(s)]

(***************************************************************************)
(* The command line: struct Args and its clap attributes.                  *)
(***************************************************************************)
\* the location arguments present on the command line
LocationsPresent(a) ==
    {n \in {"ipfs_location", "asset_canister", "uri"} : IsSome(a[n])}

\* variant: only the sha2 / sha2_auto conflict is declared
ArgsConflict_HashOnly(a) == a.sha2_auto /\ IsSome(a.sha2)

\* conflicts_with_all on ipfs_location, asset_canister and uri; conflicts_with on sha2_auto
ArgsConflict(a) ==
    \/ Cardinality(LocationsPresent(a)) >= 2
    \/ a.sha2_auto /\ IsSome(a.sha2)

\* group("hash") holds sha2 and sha2_auto
HashGroupPresent(a) == IsSome(a.sha2) \/ a.sha2_auto

\* variant: uri does not require the hash group
ArgsMissing_UriFree(a) ==
    \/ a.sha2_auto /\ ~IsSome(a.file)
    \/ ~IsSome(a.file) /\ LocationsPresent(a) = {}
    \/ ~IsSome(a.mime_type) /\ ~IsSome(a.file)

\* requires("hash") on uri, requires("file") on sha2_auto,
\* required_unless_present_any on file, required_unless_present on mime_type
ArgsMissing(a) ==
    \/ IsSome(a.uri) /\ ~HashGroupPresent(a)
    \/ a.sha2_auto /\ ~IsSome(a.file)
    \/ ~IsSome(a.file) /\ LocationsPresent(a) = {}
    \/ ~IsSome(a.mime_type) /\ ~IsSome(a.file)

\* asset_canister: Option<Principal> is parsed from its text by clap
ArgsInvalidValue(a) ==
    IsSome(a.asset_canister) /\ ~PrincipalParse(Get(a.asset_canister)).ok

\* Args::parse(): the usage error clap exits with, or "ok"
ClapValidate(a) ==
    IF ArgsInvalidValue(a) THEN "ValueValidation"
    ELSE IF ArgsConflict(a) THEN "ArgumentConflict"
    ELSE IF ArgsMissing(a) THEN "MissingRequiredArgument"
    ELSE "ok"

\* the parsed struct: asset_canister is a Principal, the rest as given
ParsedArgs(a) ==
    [a EXCEPT !.asset_canister =
        IF IsSome(a.asset_canister)
        THEN Some(PrincipalParse(Get(a.asset_canister)).val)
        ELSE None]

(***************************************************************************)
(* Replies of the replica to a call.                                       *)
(***************************************************************************)
RejectMessages == {"no query method", "canister trapped"}

\* a decoded reply value; ok = FALSE is a reply that does not decode
InterfaceReplies ==
    {[decodes |-> d, interfaces |-> i] :
        d \in BOOLEAN,
        i \in {{}, {"Mint"}, {"Approval", "Burn"}, {"Approval", "Mint", "Burn"}}}

MintReplies ==
    {[decodes |-> FALSE, ok |-> FALSE, receipt |-> None, error |-> None]}
    \cup {[decodes |-> TRUE, ok |-> TRUE, receipt |-> Some(r), error |-> None] :
            r \in MintReceipt}
    \cup {[decodes |-> TRUE, ok |-> FALSE, receipt |-> None, error |-> Some(e)] :
            e \in MintError}

\* the ways a call fails in the agent
AgentErrors ==
    {ReplicaError(c, m) : c \in 1 .. MaxRejectCode, m \in RejectMessages}
    \cup {PlainError("TransportError", 0, "connection refused")}

\* Result<Vec<u8>, AgentError>
CallOk(reply) == [ok |-> TRUE, reply |-> Some(reply), error |-> None]
CallErr(e) == [ok |-> FALSE, reply |-> None, error |-> Some(e)]

\* variant: the rejection is recognised by its message
IsReject3_ByMessage(r) ==
    /\ ~r.ok
    /\ Get(r.error).type = "ReplicaError"
    /\ Get(r.error).msg = "no query method"

\* AgentError::ReplicaError { reject_code: 3, .. }
IsReject3(r) ==
    /\ ~r.ok
    /\ Get(r.error).type = "ReplicaError"
    /\ Get(r.error).code = DestinationInvalid

\* the if-let at both call sites: Ok(bytes), or the error rmain returns
Classify(r, context) ==
    IF IsReject3(r) THEN WithContext(Get(r.error), context)
    ELSE Anyhow(Get(r.error))

(***************************************************************************)
(* Metadata assembly (rmain, the HashMap and the content type).            *)
(***************************************************************************)
\* HashMap::new()
EmptyMap == [k \in {} |-> Nat8Content(0)]

\* HashMap::insert
Insert(m, k, v) == [x \in DOMAIN m \cup {k} |-> IF x = k THEN v ELSE m[x]]

\* Option::or_else, Option::unwrap_or_else
OrElse(o, alt) == IF IsSome(o) THEN o ELSE alt
UnwrapOrElse(o, alt) == IF IsSome(o) THEN Get(o) ELSE alt

\* a step of the assembly: the map so far, or the error that ends rmain
StepOk(m) == [ok |-> TRUE, map |-> m, error |-> None]
StepErr(e) == [ok |-> FALSE, map |-> EmptyMap, error |-> Some(e)]

\* the if / else-if chain over ipfs_location, asset_canister and uri
LocationStep(m, a) ==
    IF IsSome(a.ipfs_location)
    THEN LET cid == CidParse(Get(a.ipfs_location))
             typed == Insert(m, "locationType", Nat8Content(LocationIpfs))
         IN  IF cid.ok
             THEN StepOk(Insert(typed, "location", BlobContent(cid.val)))
             ELSE StepErr(PlainError("CidError", 0, "Failed to parse multihash"))
    ELSE IF IsSome(a.asset_canister)
    THEN LET typed == Insert(m, "locationType", Nat8Content(LocationAssetCanister))
         IN  StepOk(Insert(typed, "location",
                           TextContent(PrincipalText(Get(a.asset_canister)))))
    ELSE IF IsSome(a.uri)
    THEN IF UriValid(Get(a.uri))
         THEN LET typed == Insert(m, "locationType", Nat8Content(LocationUri))
              IN  StepOk(Insert(typed, "location", TextContent(Get(a.uri))))
         ELSE StepErr(PlainError("UriError", 0, "invalid URI"))
    ELSE StepOk(Insert(m, "locationType", Nat8Content(LocationNone)))

\* variant: a hash that is not hex is left out of the record
Sha2Step_Lenient(m, a) ==
    IF IsSome(a.sha2) /\ HexDecode(Get(a.sha2)).ok
    THEN StepOk(Insert(m, "contentHash", BlobContent(HexDecode(Get(a.sha2)).val)))
    ELSE StepOk(m)

\* if let Some(sha2) = mint.sha2
Sha2Step(m, a) ==
    IF IsSome(a.sha2)
    THEN LET hex == HexDecode(Get(a.sha2))
         IN  IF hex.ok
             THEN StepOk(Insert(m, "contentHash", BlobContent(hex.val)))
             ELSE StepErr(PlainError("FromHexError", 0, "Invalid hex string"))
    ELSE StepOk(m)

\* variant: the file is hashed whether or not sha2_auto is set
FileStep_AlwaysHash(m, a) ==
    IF IsSome(a.file)
    THEN LET read == FsRead(Get(a.file))
         IN  IF ~read.ok
             THEN StepErr(PlainError("IoError", 0, "No such file or directory"))
             ELSE StepOk(Insert(m, "contentHash", BlobContent(Sha256Digest(read.val))))
    ELSE StepOk(m)

\* the file branch: fs::read and the automatic hash
FileStep(m, a) ==
    IF IsSome(a.file)
    THEN LET read == FsRead(Get(a.file))
         IN  IF ~read.ok
             THEN StepErr(PlainError("IoError", 0, "No such file or directory"))
             ELSE IF a.sha2_auto
             THEN StepOk(Insert(m, "contentHash", BlobContent(Sha256Digest(read.val))))
             ELSE StepOk(m)
    ELSE StepOk(m)

\* the bytes sent as content: the file's, or none
FileData(a) == IF IsSome(a.file) THEN FsRead(Get(a.file)).val ELSE <<>>

\* variant: the guess from the file's name comes before the override
ContentType_GuessFirst(a) ==
    LET content_type ==
            IF IsSome(a.file)
            THEN OrElse(MimeGuess(Get(a.file)), a.mime_type)
            ELSE a.mime_type
    IN  UnwrapOrElse(content_type, DefaultContentType)

\* variant: no default, an unknown type is left empty
ContentType_NoDefault(a) ==
    LET content_type ==
            IF IsSome(a.file)
            THEN OrElse(a.mime_type, MimeGuess(Get(a.file)))
            ELSE a.mime_type
    IN  UnwrapOrElse(content_type, "")

\* content_type: the override, else the guess from the file's name, else the default
ContentType(a) ==
    LET content_type ==
            IF IsSome(a.file)
            THEN OrElse(a.mime_type, MimeGuess(Get(a.file)))
            ELSE a.mime_type
    IN  UnwrapOrElse(content_type, DefaultContentType)

\* the whole assembly, each ? ending it with its error
Assemble(a) ==
    LET loc == LocationStep(EmptyMap, a)
    IN  IF ~loc.ok THEN loc
        ELSE LET sha == Sha2Step(loc.map, a)
             IN  IF ~sha.ok THEN sha
                 ELSE LET file == FileStep(sha.map, a)
                      IN  IF ~file.ok THEN file
                          ELSE StepOk(Insert(file.map, "contentType",
                                             TextContent(ContentType(a))))

\* variant: any non-empty interface list passes
SupportsMint_AnyInterface(interfaces) == interfaces # {}

\* interfaces.contains(&InterfaceId::Mint)
SupportsMint(interfaces) == "Mint" \in interfaces

\* MetadataPart { purpose: Rendered, data, key_val_data }
MetadataPart(m, d) == [purpose |-> "Rendered", key_val_data |-> m, data |-> d]

VARIABLES
    args,       \* the command line
    mint,       \* the parsed Args
    pc,         \* the position in rmain
    sent,       \* the calls handed to the agent, in order
    query_res,  \* the reply to supportedInterfacesDip721
    metadata,   \* the HashMap of metadata keys
    data,       \* the file's bytes
    mint_res,   \* the reply to mintDip721
    err,        \* the error rmain returned
    stdout,     \* what was printed to standard output
    stderr,     \* what was printed to standard error
    exit        \* the exit status of the process

vars ==
    <<args, mint, pc, sent, query_res, metadata, data, mint_res, err, stdout, stderr, exit>>


Init ==
    /\ args \in ArgsInputs
    /\ mint = None
    /\ pc = "parse"
    /\ sent = <<>>
    /\ query_res = None
    /\ metadata = EmptyMap
    /\ data = <<>>
    /\ mint_res = None
    /\ err = None
    /\ stdout = None
    /\ stderr = None
    /\ exit = None

\* main: eprintln!("{}", e); process::exit(1)
Fail(e) ==
    /\ pc' = "done"
    /\ err' = Some(e)
    /\ stderr' = Some(Display(e))
    /\ exit' = Some(ExitFailure)

\* main: rmain returned Ok(())
Succeed ==
    /\ pc' = "done"
    /\ exit' = Some(0)
    /\ UNCHANGED <<err, stderr>>

\* Args::parse()
ParseArgs ==
    /\ pc = "parse"
    /\ IF ClapValidate(args) = "ok"
       THEN /\ mint' = Some(ParsedArgs(args))
            /\ pc' = "confirm"
            /\ UNCHANGED <<stderr, exit>>
       ELSE /\ pc' = "done"
            /\ stderr' = Some([text |-> ClapValidate(args), code |-> 0, detail |-> ""])
            /\ exit' = Some(ExitUsage)
            /\ UNCHANGED mint
    /\ UNCHANGED <<args, sent, query_res, metadata, data, mint_res, err, stdout>>

\* the confirmation prompt when no file is given
ConfirmNoFile ==
    /\ pc = "confirm"
    /\ IF ~IsSome(Get(mint).file) /\ ~Get(mint).yes
       THEN \E answer \in {"yes", "no", "io error"} :
              CASE answer = "yes" ->
                     /\ pc' = "agent"
                     /\ UNCHANGED <<err, stdout, stderr, exit>>
                [] answer = "no" ->
                     /\ stdout' = Some([text |-> "Aborted upload", code |-> 0, detail |-> ""])
                     /\ Succeed
                [] OTHER ->
                     /\ Fail(Anyhow(PlainError("IoError", 0, "not a terminal")))
                     /\ UNCHANGED stdout
       ELSE /\ pc' = "agent"
            /\ UNCHANGED <<err, stdout, stderr, exit>>
    /\ UNCHANGED <<args, mint, sent, query_res, metadata, data, mint_res>>

\* get_agent(..).await?
GetAgent ==
    /\ pc = "agent"
    /\ \E ok \in BOOLEAN :
         IF ok
         THEN /\ pc' = "query"
              /\ UNCHANGED <<err, stderr, exit>>
         ELSE Fail(WithContext(PlainError("IoError", 0, "identity.json not found"),
                      "Configure an identity in dfx or provide an --identity flag"))
    /\ UNCHANGED <<args, mint, sent, query_res, metadata, data, mint_res, stdout>>

\* agent.query(&canister, "supportedInterfacesDip721").with_arg(..).call()
QueryCall ==
    /\ pc = "query"
    /\ sent' = Append(sent, [method |-> "supportedInterfacesDip721",
                             parts |-> <<>>, data |-> <<>>])
    /\ pc' = "query_wait"
    /\ UNCHANGED <<args, mint, query_res, metadata, data, mint_res, err, stdout, stderr, exit>>

\* variant: a failed query that is not a code-3 rejection is sent once more
QueryReturn_Retry ==
    /\ pc = "query_wait"
    /\ \E r \in {CallOk(x) : x \in InterfaceReplies} \cup {CallErr(e) : e \in AgentErrors} :
         /\ query_res' = Some(r)
         /\ IF r.ok
            THEN /\ pc' = "interfaces"
                 /\ UNCHANGED <<err, stderr, exit>>
            ELSE IF ~IsReject3(r) /\ Len(sent) < 2
            THEN /\ pc' = "query"
                 /\ UNCHANGED <<err, stderr, exit>>
            ELSE Fail(Classify(r, NotDip721Context))
    /\ UNCHANGED <<args, mint, sent, metadata, data, mint_res, stdout>>

\* .await, and the if-let on the result
QueryReturn ==
    /\ pc = "query_wait"
    /\ \E r \in {CallOk(x) : x \in InterfaceReplies} \cup {CallErr(e) : e \in AgentErrors} :
         /\ query_res' = Some(r)
         /\ IF r.ok
            THEN /\ pc' = "interfaces"
                 /\ UNCHANGED <<err, stderr, exit>>
            ELSE Fail(Classify(r, NotDip721Context))
    /\ UNCHANGED <<args, mint, sent, metadata, data, mint_res, stdout>>

\* Decode!(&res, Vec<InterfaceId>)? and the check for Mint
CheckInterfaces ==
    /\ pc = "interfaces"
    /\ LET reply == Get(Get(query_res).reply)
       IN  IF ~reply.decodes
           THEN Fail(Anyhow(PlainError("CandidError", 0, "Cannot parse header")))
           ELSE IF ~SupportsMint(reply.interfaces)
           THEN Fail(Anyhow(PlainError("Message", 0, NoMintContext)))
           ELSE /\ pc' = "metadata"
                /\ UNCHANGED <<err, stderr, exit>>
    /\ UNCHANGED <<args, mint, sent, query_res, metadata, data, mint_res, stdout>>

\* the metadata map, the file's bytes and the content type
AssembleMetadata ==
    /\ pc = "metadata"
    /\ LET built == Assemble(Get(mint))
       IN  IF built.ok
           THEN /\ metadata' = built.map
                /\ data' = FileData(Get(mint))
                /\ pc' = "mint"
                /\ UNCHANGED <<err, stderr, exit>>
           ELSE /\ Fail(Anyhow(Get(built.error)))
                /\ UNCHANGED <<metadata, data>>
    /\ UNCHANGED <<args, mint, sent, query_res, mint_res, stdout>>

\* agent.update(&mint.canister, "mintDip721").with_arg(..).call_and_wait()
MintCall ==
    /\ pc = "mint"
    /\ sent' = Append(sent, [method |-> "mintDip721",
                             parts |-> <<MetadataPart(metadata, data)>>,
                             data |-> data])
    /\ pc' = "mint_wait"
    /\ UNCHANGED <<args, mint, query_res, metadata, data, mint_res, err, stdout, stderr, exit>>

\* .await, and the if-let on the result
MintReturn ==
    /\ pc = "mint_wait"
    /\ \E r \in {CallOk(x) : x \in MintReplies} \cup {CallErr(e) : e \in AgentErrors} :
         /\ mint_res' = Some(r)
         /\ IF r.ok
            THEN /\ pc' = "decode"
                 /\ UNCHANGED <<err, stderr, exit>>
            ELSE Fail(Classify(r, NoMintContext))
    /\ UNCHANGED <<args, mint, sent, query_res, metadata, data, stdout>>

\* variant: a denial is reported under the context of a failed call
ReceiptError_AsCallFailure(reply) ==
    IF ~reply.decodes
    THEN Some(Anyhow(PlainError("CandidError", 0, "Cannot parse header")))
    ELSE IF ~reply.ok
    THEN Some(WithContext(PlainError("MintError", 0, UnauthorizedMessage), NoMintContext))
    ELSE None

\* Decode!(&res, Result<MintReceipt, MintError>)??: the error the two ? return, if any
ReceiptError(reply) ==
    IF ~reply.decodes
    THEN Some(Anyhow(PlainError("CandidError", 0, "Cannot parse header")))
    ELSE IF ~reply.ok
    THEN Some(Anyhow(PlainError("MintError", 0, UnauthorizedMessage)))
    ELSE None

\* println!("Successfully minted token {token_id} to {owner} (transaction id {id})")
SuccessLine(receipt) ==
    [text |-> "Successfully minted token", code |-> receipt.token_id,
     detail |-> ToString(receipt.id)]

\* the decoding of the mint reply and the success line
DecodeReceipt ==
    /\ pc = "decode"
    /\ LET reply == Get(Get(mint_res).reply)
       IN  IF IsSome(ReceiptError(reply))
           THEN /\ Fail(Get(ReceiptError(reply)))
                /\ UNCHANGED stdout
           ELSE /\ stdout' = Some(SuccessLine(Get(reply.receipt)))
                /\ Succeed
    /\ UNCHANGED <<args, mint, sent, query_res, metadata, data, mint_res>>

Next ==
    \/ ParseArgs
    \/ ConfirmNoFile
    \/ GetAgent
    \/ QueryCall
    \/ QueryReturn
    \/ CheckInterfaces
    \/ AssembleMetadata
    \/ MintCall
    \/ MintReturn
    \/ DecodeReceipt

Spec == Init /\ [][Next]_vars

(***************************************************************************)
(* Properties.                                                             *)
(***************************************************************************)
QueryMethod == "supportedInterfacesDip721"
MintMethod == "mintDip721"

\* the positions in sent of the calls to a method
CallsTo(method) == {i \in 1 .. Len(sent) : sent[i].method = method}

\* the metadata maps handed to mintDip721
MintRecords == {sent[i].parts[1].key_val_data : i \in CallsTo(MintMethod)}

\* the capability query returned a list that decodes
QueryDecoded ==
    /\ IsSome(query_res)
    /\ Get(query_res).ok
    /\ Get(Get(query_res).reply).decodes

QueryInterfaces == Get(Get(query_res).reply).interfaces

CapabilityMissing == Anyhow(PlainError("Message", 0, NoMintContext))

\* C1: the mint call is issued only after the capability query returned a
\* list containing Mint; a returned list without Mint ends the run with the
\* "does not support minting" error and no mint call.
C1_MintGatedByCapability ==
    /\ CallsTo(MintMethod) # {} =>
         /\ QueryDecoded
         /\ "Mint" \in QueryInterfaces
         /\ \A i \in CallsTo(MintMethod) : \E j \in CallsTo(QueryMethod) : j < i
    /\ (QueryDecoded /\ "Mint" \notin QueryInterfaces /\ pc # "interfaces") =>
         /\ pc = "done"
         /\ err = Some(CapabilityMissing)
         /\ exit = Some(ExitFailure)
         /\ CallsTo(MintMethod) = {}

C1_Witness ==
    /\ CallsTo(MintMethod) # {}
    /\ QueryDecoded
    /\ QueryInterfaces = {"Approval", "Mint", "Burn"}

C1_WitnessMissing ==
    /\ QueryDecoded
    /\ QueryInterfaces = {"Approval", "Burn"}
    /\ err = Some(CapabilityMissing)

UsageErrors == {"ValueValidation", "ArgumentConflict", "MissingRequiredArgument"}

\* the run ended in Args::parse() with a usage error and nothing was sent
RejectedByParse ==
    /\ pc = "done"
    /\ mint = None
    /\ exit = Some(ExitUsage)
    /\ IsSome(stderr) /\ Get(stderr).text \in UsageErrors
    /\ sent = <<>>

\* C2: two or more of ipfs_location, asset_canister and uri end the run with
\* a usage error before any call is sent; none of them is picked.
C2_ConflictingLocationsRejected ==
    (Cardinality(LocationsPresent(args)) >= 2 /\ pc # "parse") => RejectedByParse

C2_Witness ==
    /\ args.ipfs_location = Some("QmGood")
    /\ args.uri = Some("https://example.com/a.png")
    /\ args.asset_canister = None
    /\ IsSome(args.file) /\ IsSome(args.sha2) /\ IsSome(args.mime_type)
    /\ RejectedByParse

\* C3: a uri with neither sha2 nor sha2_auto ends the run with a usage
\* error, and no mint call carries locationType 3 without contentHash.
C3_UriRequiresHash ==
    /\ (IsSome(args.uri) /\ ~IsSome(args.sha2) /\ ~args.sha2_auto /\ pc # "parse")
          => RejectedByParse
    /\ \A m \in MintRecords :
          m["locationType"] = Nat8Content(LocationUri) => "contentHash" \in DOMAIN m

C3_Witness ==
    /\ Cardinality(LocationsPresent(args)) = 1
    /\ args.uri = Some("https://example.com/a.png")
    /\ ~IsSome(args.sha2) /\ ~args.sha2_auto
    /\ IsSome(args.file) /\ IsSome(args.mime_type)
    /\ RejectedByParse

C3_WitnessSent ==
    \E m \in MintRecords :
        m["locationType"] = Nat8Content(LocationUri) /\ "contentHash" \in DOMAIN m

\* the locationType the arguments select
ExpectedLocationType(a) ==
    IF IsSome(a.ipfs_location) THEN LocationIpfs
    ELSE IF IsSome(a.asset_canister) THEN LocationAssetCanister
    ELSE IF IsSome(a.uri) THEN LocationUri
    ELSE LocationNone

\* C4: every record passed to the mint call holds locationType and
\* contentType, location iff locationType is not 4, contentHash iff a hash
\* was given or computed from the file, and no other key.
C4_RecordKeys ==
    \A m \in MintRecords :
        /\ {"locationType", "contentType"} \subseteq DOMAIN m
        /\ DOMAIN m \subseteq {"locationType", "location", "contentHash", "contentType"}
        /\ m["locationType"] = Nat8Content(ExpectedLocationType(args))
        /\ "location" \in DOMAIN m <=> m["locationType"] # Nat8Content(LocationNone)
        /\ "contentHash" \in DOMAIN m <=>
              (IsSome(args.sha2) \/ (args.sha2_auto /\ IsSome(args.file)))

C4_Witness ==
    \E m \in MintRecords :
        /\ DOMAIN m = {"locationType", "contentType"}
        /\ IsSome(args.file) /\ ~args.sha2_auto

C4_WitnessFull ==
    \E m \in MintRecords :
        DOMAIN m = {"locationType", "location", "contentHash", "contentType"}

\* the error a failed call must end the run with
ExpectedCallError(r, context) ==
    IF Get(r.error).type = "ReplicaError" /\ Get(r.error).code = DestinationInvalid
    THEN [ctx |-> Some(context), cause |-> Get(r.error)]
    ELSE [ctx |-> None, cause |-> Get(r.error)]

\* C5: at both call sites a rejection with code 3 ends the run with the
\* contextual error over the original one, any other failure is returned as
\* it is, and the message plays no part.
C5_RejectCodeClassified ==
    /\ (IsSome(query_res) /\ ~Get(query_res).ok) =>
         /\ pc = "done"
         /\ err = Some(ExpectedCallError(Get(query_res), NotDip721Context))
         /\ exit = Some(ExitFailure)
    /\ (IsSome(mint_res) /\ ~Get(mint_res).ok) =>
         /\ pc = "done"
         /\ err = Some(ExpectedCallError(Get(mint_res), NoMintContext))
         /\ exit = Some(ExitFailure)

C5_Witness ==
    /\ IsSome(mint_res) /\ ~Get(mint_res).ok
    /\ Get(mint_res).error = Some(ReplicaError(DestinationInvalid, "canister trapped"))
    /\ IsSome(err) /\ Get(err).ctx = Some(NoMintContext)

C5_WitnessQuery ==
    /\ IsSome(query_res) /\ ~Get(query_res).ok
    /\ Get(query_res).error = Some(ReplicaError(DestinationInvalid, "canister trapped"))
    /\ IsSome(err) /\ Get(err).ctx = Some(NotDip721Context)

C5_WitnessOther ==
    /\ IsSome(query_res) /\ ~Get(query_res).ok
    /\ Get(query_res).error = Some(ReplicaError(1, "no query method"))
    /\ IsSome(err) /\ Get(err).ctx = None

\* the mint call returned a reply that decodes
MintDecoded ==
    /\ IsSome(mint_res)
    /\ Get(mint_res).ok
    /\ Get(Get(mint_res).reply).decodes

MintReply == Get(Get(mint_res).reply)

Denied == [ctx |-> None, cause |-> PlainError("MintError", 0, UnauthorizedMessage)]

C6_WitnessSuccess ==
    /\ MintDecoded /\ MintReply.ok /\ pc = "done"
    /\ MintReply.receipt = Some([id |-> 1, token_id |-> 0])
    /\ exit = Some(0)

DefaultRecord ==
    [k \in {"locationType", "contentType"} |->
        IF k = "locationType" THEN Nat8Content(4)
        ELSE TextContent("application/octet-stream")]

\* C7 as stated: with no location, no file and no mime_type the run is
\* accepted and the record is {locationType: 4, contentType: the default}.
C7_Original ==
    (LocationsPresent(args) = {} /\ ~IsSome(args.file) /\ ~IsSome(args.mime_type)
        /\ pc # "parse") =>
        /\ IsSome(mint)
        /\ \A m \in MintRecords : m = DefaultRecord

\* C7 as amended: with no location and no file the run ends with a usage
\* error before any call; with no location, no hash, no mime_type and a file
\* whose type cannot be guessed the run is accepted and the record is
\* {locationType: 4, contentType: the default}.
C7_Amended ==
    /\ (LocationsPresent(args) = {} /\ ~IsSome(args.file) /\ pc # "parse")
          => RejectedByParse
    /\ (/\ LocationsPresent(args) = {}
        /\ IsSome(args.file) /\ MimeGuess(Get(args.file)) = None
        /\ ~IsSome(args.mime_type) /\ ~IsSome(args.sha2) /\ ~args.sha2_auto
        /\ pc # "parse") =>
          /\ IsSome(mint)
          /\ \A m \in MintRecords : m = DefaultRecord

C7_Witness ==
    /\ LocationsPresent(args) = {}
    /\ args.file = Some([stem |-> "blob", ext |-> ""])
    /\ ~IsSome(args.mime_type) /\ ~IsSome(args.sha2) /\ ~args.sha2_auto
    /\ MintRecords = {DefaultRecord}

\* C8: contentType is the mime_type override if given, else the type guessed
\* from the file's name if a file is given and the guess succeeds, else the
\* default.
C8_ContentTypeOrder ==
    \A m \in MintRecords :
        m["contentType"] =
            TextContent(IF IsSome(args.mime_type) THEN Get(args.mime_type)
                        ELSE IF IsSome(args.file) /\ IsSome(MimeGuess(Get(args.file)))
                        THEN Get(MimeGuess(Get(args.file)))
                        ELSE "application/octet-stream")

C8_Witness ==
    /\ args.mime_type = Some("text/plain")
    /\ args.file = Some([stem |-> "a", ext |-> "png"])
    /\ \E m \in MintRecords : m["contentType"] = TextContent("text/plain")

C8_WitnessGuess ==
    /\ args.mime_type = None
    /\ \E m \in MintRecords : m["contentType"] = TextContent("image/png")

\* the run has failed
Failed == IsSome(err) \/ exit \in {Some(ExitFailure), Some(ExitUsage)}

C9_AtMostOnce ==
    /\ Cardinality(CallsTo(QueryMethod)) <= 1
    /\ Cardinality(CallsTo(MintMethod)) <= 1
    /\ Len(sent) <= 2
    /\ Failed =>
         /\ pc = "done"
         /\ IsSome(stderr)
         /\ IsSome(err) => (stderr = Some(Display(Get(err))) /\ exit = Some(ExitFailure))

\* C9: each call is issued at most once in a run, and once the run has
\* failed it has ended with the failure printed and nothing more is sent.
C9_NoRetries ==
    /\ []C9_AtMostOnce
    /\ [][Failed => (sent' = sent /\ err' = err /\ exit' = exit)]_vars

C9_Witness ==
    /\ Failed
    /\ Len(sent) = 2
    /\ IsSome(mint_res) /\ ~Get(mint_res).ok

ValidationErrors == {"CidError", "UriError", "FromHexError"}

\* C10 as stated: a malformed CID, URI or hex hash is reported before any call.
C10_Original ==
    (IsSome(err) /\ Get(err).cause.type \in ValidationErrors) => sent = <<>>

\* C10 as amended: a malformed CID, URI or hex hash is reported after the
\* capability query has been sent and has passed and before the mint call:
\* the query is the only call sent, and no mint call is sent with such input.
C10_Amended ==
    /\ (IsSome(err) /\ Get(err).cause.type \in ValidationErrors) =>
         /\ pc = "done"
         /\ Len(sent) = 1 /\ sent[1].method = QueryMethod
         /\ QueryDecoded /\ "Mint" \in QueryInterfaces
         /\ stderr = Some(Display(Get(err)))
         /\ exit = Some(ExitFailure)
    /\ CallsTo(MintMethod) # {} =>
         /\ IsSome(args.ipfs_location) => CidParse(Get(args.ipfs_location)).ok
         /\ IsSome(args.uri) => UriValid(Get(args.uri))
         /\ IsSome(args.sha2) => HexDecode(Get(args.sha2)).ok

C10_Witness ==
    /\ args.ipfs_location = Some("not-a-cid")
    /\ IsSome(err) /\ Get(err).cause.type = "CidError"
    /\ Len(sent) = 1

C10_WitnessHex ==
    /\ args.sha2 = Some(<<"d", "e", "a">>)
    /\ IsSome(err) /\ Get(err).cause.type = "FromHexError"
=============================================================================
